---- MODULE Spec2Model ----
(***************************************************************************)
(* Model of the RGB frame grabber (controller/rgb_grabber):                *)
(*   - RGBGrabber: start/stop, the detached capture thread's loop, the     *)
(*     double-buffered frame store and get_latest_frame;                   *)
(*   - FramePublisher: publish (wire message, non-blocking send, counters);*)
(*   - main: start, stats thread, publish loop, shutdown, signal handler.  *)
(* Every statement that reads or writes a variable another thread can see  *)
(* is a step of its own, so the interleavings of the capture thread, the   *)
(* main thread, the stats thread and the signal handler are the model's    *)
(* behaviours.                                                             *)
(***************************************************************************)
EXTENDS Integers, Sequences, FiniteSets, TLC

\* ---- bounds of the model ------------------------------------------------
\* colour frames the capture source delivers before it only times out
MaxFrames == 3
\* publish calls the main loop makes before it only waits for the stop flag
MaxPublish == 3
\* longest pixel payload drawn for the wire-format specification
MaxPayload == 2
\* successful start() calls the caller of the start/stop specification makes
MaxStarts == 2

\* ---- program constants --------------------------------------------------
\* frame_publisher.cpp:32  sizeof(uint32_t)*2 + sizeof(uint64_t) + sizeof(uint32_t)
HeaderSize == 4 * 2 + 8 + 4
\* frame_publisher.hpp:15  Config::high_water_mark
HighWaterMark == 2
\* rgb_grabber.hpp:22-25  Config defaults
DefaultWidth == 640
DefaultHeight == 480
DefaultFps == 30
DefaultQuality == 85
\* rgb_grabber.hpp:54  latest_frame_{nullptr}
Null == 2
\* an int member that no statement has assigned yet (RGBFrame has no initialisers)
Indeterminate == 0

Slots == {0, 1}
\* the one capture thread main's single start() detaches
Threads == {1}

VARIABLES
    \* RGBGrabber
    config_,          \* Config: width, height, fps, jpeg_quality
    start_time_ms_,   \* clock value at construction / last successful start
    pipeline_,        \* "idle" | "streaming" : the rs2::pipeline
    running_,         \* std::atomic<bool>
    frame_count_,     \* std::atomic<uint64_t>
    latest_frame_,    \* std::atomic<RGBFrame*>: a slot index, or Null
    frame_buffer_,    \* RGBFrame[2]
    write_buffer_,    \* std::atomic<int>
    \* capture thread(s)
    cap_pc,           \* position of each capture thread
    write_idx,        \* capture_loop's local write_idx
    color_frame,      \* capture_loop's local color_frame: image id, 0 = empty
    \* capture source and clock
    camera_frames,    \* colour frames delivered so far
    clock,            \* steady_clock, in frame periods
    \* main.cpp
    running,          \* the global std::atomic<bool> running
    main_pc,          \* position of the main thread
    stop_return,      \* where the running stop() call returns to
    exit_code,        \* the value main returns
    latest,           \* get_latest_frame's local pointer
    frame,            \* main's local RGBFrame
    stats_pc,         \* position of the stats thread
    \* FramePublisher and its transport
    published_count_,
    dropped_count_,
    socket_,          \* "bound" | "closed"
    outq,             \* messages buffered in the socket's outbound queue
    message,          \* publish's local zmq::message_t, empty outside the call
    pub_ret,          \* what the publish call just made returned, until main discards it
    \* history (not read by any action's guard)
    encoded,          \* the frames completed by the capture loop, in order
    encode_ok,        \* number of encode_jpeg calls that returned true
    stores,           \* number of latest_frame_.store calls
    rd_stores,        \* value of stores when the current read loaded latest_frame_
    pub_calls,        \* number of completed publish calls
    reads             \* number of get_latest_frame calls that returned true

grabber_vars == <<config_, start_time_ms_, pipeline_, running_, frame_count_, latest_frame_,
                  frame_buffer_, write_buffer_>>
cap_vars     == <<cap_pc, write_idx, color_frame>>
source_vars  == <<camera_frames, clock>>
main_vars    == <<running, main_pc, stop_return, exit_code, latest, frame, stats_pc>>
pub_vars     == <<published_count_, dropped_count_, socket_, outq, message, pub_ret>>
hist_vars    == <<encoded, encode_ok, stores, rd_stores, pub_calls, reads>>

vars == <<grabber_vars, cap_vars, source_vars, main_vars, pub_vars, hist_vars>>

\* ---- data ---------------------------------------------------------------
\* RGBFrame as default-initialised: empty vector, unassigned scalars
EmptyFrame ==
    [data |-> <<>>, width |-> Indeterminate, height |-> Indeterminate,
     timestamp_ms |-> Indeterminate, frame_number |-> Indeterminate]

\* RGBGrabber::Config with the defaults main uses when no argument is given
DefaultConfig ==
    [width |-> DefaultWidth, height |-> DefaultHeight, fps |-> DefaultFps,
     jpeg_quality |-> DefaultQuality]

\* encode_jpeg's output for image number img: a JPEG start-of-image marker
\* followed by bytes that depend on the image
Jpeg(img) == <<255, 216, img>>

\* ---- wire format (FramePublisher::publish) -------------------------------
\* memcpy of the n low bytes of an unsigned value, little-endian
RECURSIVE LE(_, _)
LE(v, n) == IF n = 0 THEN <<>> ELSE <<v % 256>> \o LE(v \div 256, n - 1)

\* Serialize with the timestamp copied with sizeof(uint32_t)
Serialize_ShortTimestamp(f) ==
    LE(f.width, 4) \o LE(f.height, 4) \o LE(f.timestamp_ms, 4)
        \o LE(f.frame_number, 4) \o f.data

\* the message publish builds: header fields in order, then the JPEG bytes
Serialize(f) ==
    LE(f.width, 4) \o LE(f.height, 4) \o LE(f.timestamp_ms, 8)
        \o LE(f.frame_number, 4) \o f.data

\* ---- initial state: after the constructors in main have run -------------
\* RGBGrabber::RGBGrabber, FramePublisher::FramePublisher, main's locals
InitThreads(cfg, pc, f, T) ==
    /\ config_ = cfg
    /\ start_time_ms_ = 0
    /\ pipeline_ = "idle"
    /\ running_ = FALSE
    /\ frame_count_ = 0
    /\ latest_frame_ = Null
    /\ frame_buffer_ = [s \in Slots |-> EmptyFrame]
    /\ write_buffer_ = 0
    /\ cap_pc = [t \in T |-> "none"]
    /\ write_idx = [t \in T |-> 0]
    /\ color_frame = [t \in T |-> 0]
    /\ camera_frames = 0
    /\ clock = 0
    /\ running = TRUE
    /\ main_pc = pc
    /\ stop_return = "join"
    /\ exit_code = 0
    /\ latest = Null
    /\ frame = f
    /\ stats_pc = "none"
    /\ published_count_ = 0
    /\ dropped_count_ = 0
    /\ socket_ = "bound"
    /\ outq = 0
    /\ message = <<>>
    /\ pub_ret = "none"
    /\ encoded = <<>>
    /\ encode_ok = 0
    /\ stores = 0
    /\ rd_stores = 0
    /\ pub_calls = 0
    /\ reads = 0

\* main starts the grabber once: one capture thread
InitWith(cfg, pc, f) == InitThreads(cfg, pc, f, Threads)

Init == InitWith(DefaultConfig, "start", EmptyFrame)

\* the process runs until main returns
ProcessAlive == main_pc # "done"

\* ---- RGBGrabber::capture_loop (one step per statement) ------------------
\* while (running_)
CapWhile(t) ==
    /\ ProcessAlive
    /\ cap_pc[t] = "while"
    /\ cap_pc' = [cap_pc EXCEPT ![t] = IF running_ THEN "wait" ELSE "exit"]
    /\ UNCHANGED <<grabber_vars, write_idx, color_frame, source_vars, main_vars,
                   pub_vars, hist_vars>>

\* pipeline_->wait_for_frames(1000) throws rs2::error: timeout, hard error,
\* or the pipeline is not streaming
CapWaitThrows(t) ==
    /\ ProcessAlive
    /\ cap_pc[t] = "wait"
    /\ cap_pc' = [cap_pc EXCEPT ![t] = "catch"]
    /\ UNCHANGED <<grabber_vars, write_idx, color_frame, source_vars, main_vars,
                   pub_vars, hist_vars>>

\* wait_for_frames returns a frameset holding the next colour frame
CapWaitFrame(t) ==
    /\ ProcessAlive
    /\ cap_pc[t] = "wait"
    /\ pipeline_ = "streaming"
    /\ camera_frames < MaxFrames
    /\ camera_frames' = camera_frames + 1
    /\ clock' = clock + 1
    /\ color_frame' = [color_frame EXCEPT ![t] = camera_frames + 1]
    /\ cap_pc' = [cap_pc EXCEPT ![t] = "check_color"]
    /\ UNCHANGED <<grabber_vars, write_idx, main_vars, pub_vars, hist_vars>>

\* wait_for_frames returns a frameset without a colour frame
CapWaitNoColor(t) ==
    /\ ProcessAlive
    /\ cap_pc[t] = "wait"
    /\ pipeline_ = "streaming"
    /\ color_frame' = [color_frame EXCEPT ![t] = 0]
    /\ cap_pc' = [cap_pc EXCEPT ![t] = "check_color"]
    /\ UNCHANGED <<grabber_vars, write_idx, source_vars, main_vars, pub_vars,
                   hist_vars>>

\* if (!color_frame) continue;
CapCheckColor(t) ==
    /\ ProcessAlive
    /\ cap_pc[t] = "check_color"
    /\ cap_pc' = [cap_pc EXCEPT ![t] =
                    IF color_frame[t] = 0 THEN "while" ELSE "load_idx"]
    /\ UNCHANGED <<grabber_vars, write_idx, color_frame, source_vars, main_vars,
                   pub_vars, hist_vars>>

\* int write_idx = write_buffer_.load();
CapLoadIdx(t) ==
    /\ ProcessAlive
    /\ cap_pc[t] = "load_idx"
    /\ write_idx' = [write_idx EXCEPT ![t] = write_buffer_]
    /\ cap_pc' = [cap_pc EXCEPT ![t] = "encode"]
    /\ UNCHANGED <<grabber_vars, color_frame, source_vars, main_vars, pub_vars,
                   hist_vars>>

\* CapEncode that flips write_buffer_ when encode_jpeg returns false
CapEncode_FlipOnFailure(t) ==
    /\ ProcessAlive
    /\ cap_pc[t] = "encode"
    /\ \E ok \in BOOLEAN :
        /\ frame_buffer_' = [frame_buffer_ EXCEPT ![write_idx[t]].data =
                                IF ok THEN Jpeg(color_frame[t]) ELSE <<>>]
        /\ encode_ok' = IF ok THEN encode_ok + 1 ELSE encode_ok
        /\ color_frame' = IF ok THEN color_frame ELSE [color_frame EXCEPT ![t] = 0]
        /\ write_buffer_' = IF ok THEN write_buffer_ ELSE 1 - write_idx[t]
        /\ cap_pc' = [cap_pc EXCEPT ![t] = IF ok THEN "set_width" ELSE "while"]
    /\ UNCHANGED <<config_, start_time_ms_, pipeline_, running_, frame_count_,
                   latest_frame_, write_idx, source_vars,
                   main_vars, pub_vars, encoded, stores, rd_stores, pub_calls>>
    /\ UNCHANGED reads

\* CapEncode that takes a frame number before it looks at encode_jpeg's result
CapEncode_CountsFailure(t) ==
    /\ ProcessAlive
    /\ cap_pc[t] = "encode"
    /\ \E ok \in BOOLEAN :
        /\ frame_buffer_' = [frame_buffer_ EXCEPT ![write_idx[t]].data =
                                IF ok THEN Jpeg(color_frame[t]) ELSE <<>>]
        /\ encode_ok' = IF ok THEN encode_ok + 1 ELSE encode_ok
        /\ color_frame' = IF ok THEN color_frame ELSE [color_frame EXCEPT ![t] = 0]
        /\ frame_count_' = IF ok THEN frame_count_ ELSE frame_count_ + 1
        /\ cap_pc' = [cap_pc EXCEPT ![t] = IF ok THEN "set_width" ELSE "while"]
    /\ UNCHANGED <<config_, start_time_ms_, pipeline_, running_,
                   latest_frame_, write_buffer_, write_idx, source_vars,
                   main_vars, pub_vars, encoded, stores, rd_stores, pub_calls>>
    /\ UNCHANGED reads

\* encode_jpeg(color_frame, frame.data): output.assign(...) overwrites the
\* slot's data whatever the result; the result is !output.empty().  On false
\* the iteration ends (frames and color_frame go out of scope).
CapEncode(t) ==
    /\ ProcessAlive
    /\ cap_pc[t] = "encode"
    /\ \E ok \in BOOLEAN :
        /\ frame_buffer_' = [frame_buffer_ EXCEPT ![write_idx[t]].data =
                                IF ok THEN Jpeg(color_frame[t]) ELSE <<>>]
        /\ encode_ok' = IF ok THEN encode_ok + 1 ELSE encode_ok
        /\ color_frame' = IF ok THEN color_frame ELSE [color_frame EXCEPT ![t] = 0]
        /\ cap_pc' = [cap_pc EXCEPT ![t] = IF ok THEN "set_width" ELSE "while"]
    /\ UNCHANGED <<config_, start_time_ms_, pipeline_, running_, frame_count_,
                   latest_frame_, write_buffer_, write_idx, source_vars,
                   main_vars, pub_vars, encoded, stores, rd_stores, pub_calls>>
    /\ UNCHANGED reads

\* frame.width = color_frame.get_width();
CapSetWidth(t) ==
    /\ ProcessAlive
    /\ cap_pc[t] = "set_width"
    /\ frame_buffer_' = [frame_buffer_ EXCEPT ![write_idx[t]].width = config_.width]
    /\ cap_pc' = [cap_pc EXCEPT ![t] = "set_height"]
    /\ UNCHANGED <<config_, start_time_ms_, pipeline_, running_, frame_count_,
                   latest_frame_, write_buffer_, write_idx, color_frame,
                   source_vars, main_vars, pub_vars, hist_vars>>

\* frame.height = color_frame.get_height();
CapSetHeight(t) ==
    /\ ProcessAlive
    /\ cap_pc[t] = "set_height"
    /\ frame_buffer_' = [frame_buffer_ EXCEPT ![write_idx[t]].height = config_.height]
    /\ cap_pc' = [cap_pc EXCEPT ![t] = "set_timestamp"]
    /\ UNCHANGED <<config_, start_time_ms_, pipeline_, running_, frame_count_,
                   latest_frame_, write_buffer_, write_idx, color_frame,
                   source_vars, main_vars, pub_vars, hist_vars>>

\* frame.timestamp_ms = get_timestamp_ms();
CapSetTimestamp(t) ==
    /\ ProcessAlive
    /\ cap_pc[t] = "set_timestamp"
    /\ frame_buffer_' = [frame_buffer_ EXCEPT ![write_idx[t]].timestamp_ms = clock]
    /\ cap_pc' = [cap_pc EXCEPT ![t] = "fetch_add"]
    /\ UNCHANGED <<config_, start_time_ms_, pipeline_, running_, frame_count_,
                   latest_frame_, write_buffer_, write_idx, color_frame,
                   source_vars, main_vars, pub_vars, hist_vars>>

\* CapFetchAdd with ++frame_count_ in place of fetch_add(1): the frame gets
\* the incremented value
CapFetchAdd_PreIncrement(t) ==
    /\ ProcessAlive
    /\ cap_pc[t] = "fetch_add"
    /\ frame_buffer_' = [frame_buffer_ EXCEPT
                            ![write_idx[t]].frame_number = frame_count_ + 1]
    /\ frame_count_' = frame_count_ + 1
    /\ encoded' = Append(encoded,
                         [frame_buffer_[write_idx[t]] EXCEPT
                            !.frame_number = frame_count_ + 1])
    /\ cap_pc' = [cap_pc EXCEPT ![t] = "store_write_buffer"]
    /\ UNCHANGED <<config_, start_time_ms_, pipeline_, running_, latest_frame_,
                   write_buffer_, write_idx, color_frame, source_vars, main_vars,
                   pub_vars, encode_ok, stores, rd_stores, pub_calls>>
    /\ UNCHANGED reads

\* frame.frame_number = frame_count_.fetch_add(1);
\* (the uint32_t truncation of the 64-bit counter is the identity below 2^32)
CapFetchAdd(t) ==
    /\ ProcessAlive
    /\ cap_pc[t] = "fetch_add"
    /\ frame_buffer_' = [frame_buffer_ EXCEPT ![write_idx[t]].frame_number = frame_count_]
    /\ frame_count_' = frame_count_ + 1
    /\ encoded' = Append(encoded,
                         [frame_buffer_[write_idx[t]] EXCEPT !.frame_number = frame_count_])
    /\ cap_pc' = [cap_pc EXCEPT ![t] = "store_write_buffer"]
    /\ UNCHANGED <<config_, start_time_ms_, pipeline_, running_, latest_frame_,
                   write_buffer_, write_idx, color_frame, source_vars, main_vars,
                   pub_vars, encode_ok, stores, rd_stores, pub_calls>>
    /\ UNCHANGED reads

\* CapStoreWriteBuffer without the flip: the next cycle reuses the slot
CapStoreWriteBuffer_NoFlip(t) ==
    /\ ProcessAlive
    /\ cap_pc[t] = "store_write_buffer"
    /\ write_buffer_' = write_idx[t]
    /\ cap_pc' = [cap_pc EXCEPT ![t] = "store_latest"]
    /\ UNCHANGED <<config_, start_time_ms_, pipeline_, running_, frame_count_,
                   latest_frame_, frame_buffer_, write_idx, color_frame,
                   source_vars, main_vars, pub_vars, hist_vars>>

\* write_buffer_.store(1 - write_idx);
CapStoreWriteBuffer(t) ==
    /\ ProcessAlive
    /\ cap_pc[t] = "store_write_buffer"
    /\ write_buffer_' = 1 - write_idx[t]
    /\ cap_pc' = [cap_pc EXCEPT ![t] = "store_latest"]
    /\ UNCHANGED <<config_, start_time_ms_, pipeline_, running_, frame_count_,
                   latest_frame_, frame_buffer_, write_idx, color_frame,
                   source_vars, main_vars, pub_vars, hist_vars>>

\* CapStoreLatest that stores the slot write_buffer_ names after the flip
CapStoreLatest_OtherSlot(t) ==
    /\ ProcessAlive
    /\ cap_pc[t] = "store_latest"
    /\ latest_frame_' = write_buffer_
    /\ stores' = stores + 1
    /\ color_frame' = [color_frame EXCEPT ![t] = 0]
    /\ cap_pc' = [cap_pc EXCEPT ![t] = "while"]
    /\ UNCHANGED <<config_, start_time_ms_, pipeline_, running_, frame_count_,
                   frame_buffer_, write_buffer_, write_idx, source_vars,
                   main_vars, pub_vars, encoded, encode_ok, rd_stores,
                   pub_calls>>
    /\ UNCHANGED reads

\* latest_frame_.store(&frame);  and the iteration ends
CapStoreLatest(t) ==
    /\ ProcessAlive
    /\ cap_pc[t] = "store_latest"
    /\ latest_frame_' = write_idx[t]
    /\ stores' = stores + 1
    /\ color_frame' = [color_frame EXCEPT ![t] = 0]
    /\ cap_pc' = [cap_pc EXCEPT ![t] = "while"]
    /\ UNCHANGED <<config_, start_time_ms_, pipeline_, running_, frame_count_,
                   frame_buffer_, write_buffer_, write_idx, source_vars,
                   main_vars, pub_vars, encoded, encode_ok, rd_stores,
                   pub_calls>>
    /\ UNCHANGED reads

\* CapCatch with the try block around the loop: an rs2::error ends the loop
CapCatch_LeavesLoop(t) ==
    /\ ProcessAlive
    /\ cap_pc[t] = "catch"
    /\ cap_pc' = [cap_pc EXCEPT ![t] = "exit"]
    /\ UNCHANGED <<grabber_vars, write_idx, color_frame, source_vars, main_vars,
                   pub_vars, hist_vars>>

\* catch (const rs2::error&): log, sleep_for(100 ms), next iteration
CapCatch(t) ==
    /\ ProcessAlive
    /\ cap_pc[t] = "catch"
    /\ cap_pc' = [cap_pc EXCEPT ![t] = "while"]
    /\ UNCHANGED <<grabber_vars, write_idx, color_frame, source_vars, main_vars,
                   pub_vars, hist_vars>>

CaptureLoop(t) ==
    \/ CapWhile(t)
    \/ CapWaitThrows(t)
    \/ CapWaitFrame(t)
    \/ CapWaitNoColor(t)
    \/ CapCheckColor(t)
    \/ CapLoadIdx(t)
    \/ CapEncode(t)
    \/ CapSetWidth(t)
    \/ CapSetHeight(t)
    \/ CapSetTimestamp(t)
    \/ CapFetchAdd(t)
    \/ CapStoreWriteBuffer(t)
    \/ CapStoreLatest(t)
    \/ CapCatch(t)

\* ---- RGBGrabber::start / stop --------------------------------------------
\* a capture thread slot not used yet
FreeThread ==
    CHOOSE t \in DOMAIN cap_pc :
        /\ cap_pc[t] = "none"
        /\ \A u \in DOMAIN cap_pc : cap_pc[u] = "none" => t <= u

\* GrabberStart with running_ = true moved before pipeline_->start(cfg)
GrabberStart_RunningFirst(from, okPc, failPc) ==
    /\ main_pc = from
    /\ IF running_
       THEN /\ main_pc' = okPc
            /\ UNCHANGED <<start_time_ms_, pipeline_, running_, cap_pc>>
       ELSE \E opened \in BOOLEAN :
              /\ running_' = TRUE
              /\ IF opened
                 THEN /\ pipeline_' = "streaming"
                      /\ start_time_ms_' = clock
                      /\ cap_pc' = [cap_pc EXCEPT ![FreeThread] = "while"]
                      /\ main_pc' = okPc
                 ELSE /\ main_pc' = failPc
                      /\ UNCHANGED <<start_time_ms_, pipeline_, cap_pc>>
    /\ UNCHANGED <<config_, frame_count_, latest_frame_, frame_buffer_,
                   write_buffer_, write_idx, color_frame, source_vars, running,
                   stop_return, exit_code, latest, frame, stats_pc, pub_vars,
                   hist_vars>>

\* bool RGBGrabber::start(), called at main_pc = from: returns true to okPc,
\* false to failPc.  The configuration is handed to the pipeline as it is;
\* pipeline_->start(cfg) either starts streaming or throws rs2::error.
GrabberStart(from, okPc, failPc) ==
    /\ main_pc = from
    /\ IF running_
       THEN /\ main_pc' = okPc
            /\ UNCHANGED <<start_time_ms_, pipeline_, running_, cap_pc>>
       ELSE \E opened \in BOOLEAN :
              IF opened
              THEN /\ pipeline_' = "streaming"
                   /\ running_' = TRUE
                   /\ start_time_ms_' = clock
                   /\ cap_pc' = [cap_pc EXCEPT ![FreeThread] = "while"]
                   /\ main_pc' = okPc
              ELSE /\ main_pc' = failPc
                   /\ UNCHANGED <<start_time_ms_, pipeline_, running_, cap_pc>>
    /\ UNCHANGED <<config_, frame_count_, latest_frame_, frame_buffer_,
                   write_buffer_, write_idx, color_frame, source_vars, running,
                   stop_return, exit_code, latest, frame, stats_pc, pub_vars,
                   hist_vars>>

\* GrabberStop without the `if (!running_) return;` guard
GrabberStop_NoGuard(from, retPc) ==
    /\ main_pc = from
    /\ running_' = FALSE
    /\ stop_return' = retPc
    /\ main_pc' = "stop_sleep"
    /\ UNCHANGED <<config_, start_time_ms_, pipeline_, frame_count_,
                   latest_frame_, frame_buffer_, write_buffer_, cap_vars,
                   source_vars, running, exit_code, latest, frame, stats_pc,
                   pub_vars, hist_vars>>

\* void RGBGrabber::stop(), called at main_pc = from and returning to retPc:
\* if (!running_) return; running_ = false; then the 100 ms sleep begins
GrabberStop(from, retPc) ==
    /\ main_pc = from
    /\ IF ~running_
       THEN /\ main_pc' = retPc
            /\ UNCHANGED <<running_, stop_return>>
       ELSE /\ running_' = FALSE
            /\ stop_return' = retPc
            /\ main_pc' = "stop_sleep"
    /\ UNCHANGED <<config_, start_time_ms_, pipeline_, frame_count_,
                   latest_frame_, frame_buffer_, write_buffer_, cap_vars,
                   source_vars, running, exit_code, latest, frame, stats_pc,
                   pub_vars, hist_vars>>

\* stop(), after sleep_for(100 ms): pipeline_->stop(); log; return
GrabberStopTeardown ==
    /\ main_pc = "stop_sleep"
    /\ pipeline_' = "idle"
    /\ main_pc' = stop_return
    /\ UNCHANGED <<config_, start_time_ms_, running_, frame_count_,
                   latest_frame_, frame_buffer_, write_buffer_, cap_vars,
                   source_vars, running, stop_return, exit_code, latest, frame,
                   stats_pc, pub_vars, hist_vars>>

\* ---- RGBGrabber::get_latest_frame (called from main's loop) ---------------
\* GetLatestLoad without the null check
GetLatestLoad_NoNullCheck ==
    /\ main_pc = "get_latest_frame"
    /\ latest' = latest_frame_
    /\ rd_stores' = stores
    /\ main_pc' = "copy_data"
    /\ UNCHANGED <<grabber_vars, cap_vars, source_vars, running, stop_return,
                   exit_code, frame, stats_pc, pub_vars, encoded, encode_ok,
                   stores, pub_calls>>
    /\ UNCHANGED reads

\* RGBFrame* latest = latest_frame_.load(); if (!latest) return false;
GetLatestLoad ==
    /\ main_pc = "get_latest_frame"
    /\ latest' = latest_frame_
    /\ rd_stores' = stores
    /\ main_pc' = IF latest_frame_ = Null THEN "sleep" ELSE "copy_data"
    /\ UNCHANGED <<grabber_vars, cap_vars, source_vars, running, stop_return,
                   exit_code, frame, stats_pc, pub_vars, encoded, encode_ok,
                   stores, pub_calls>>
    /\ UNCHANGED reads

\* frame = *latest;  the implicit copy assignment copies member by member;
\* after the last member get_latest_frame returns true and its local pointer
\* is gone
CopyField(from, field, to) ==
    /\ main_pc = from
    /\ frame' = [frame EXCEPT ![field] = frame_buffer_[latest][field]]
    /\ latest' = IF to = "publish" THEN Null ELSE latest
    /\ main_pc' = to
    /\ reads' = IF to = "publish" THEN reads + 1 ELSE reads
    /\ UNCHANGED <<grabber_vars, cap_vars, source_vars, running, stop_return,
                   exit_code, stats_pc, pub_vars, encoded, encode_ok, stores,
                   rd_stores, pub_calls>>

GetLatestCopyData      == CopyField("copy_data", "data", "copy_width")
GetLatestCopyWidth     == CopyField("copy_width", "width", "copy_height")
GetLatestCopyHeight    == CopyField("copy_height", "height", "copy_timestamp")
GetLatestCopyTimestamp == CopyField("copy_timestamp", "timestamp_ms", "copy_number")
\* ... and main calls publisher.publish(frame)
GetLatestCopyNumber    == CopyField("copy_number", "frame_number", "publish")

\* ---- FramePublisher::publish ---------------------------------------------
Min(a, b) == IF a < b THEN a ELSE b

\* what socket_->send(message, dontwait) can do: "sent" (the message is
\* queued; at the high-water mark the transport makes room by dropping),
\* "again" (the queue is full and the send would block: empty result) or
\* "error" (zmq::error_t is thrown; the only outcome on a closed socket)
SendOutcomes ==
    IF socket_ = "closed" THEN {"error"}
    ELSE {"sent", "error"} \cup (IF outq = HighWaterMark THEN {"again"} ELSE {})

\* bool FramePublisher::publish(const RGBFrame& frame), first half: the
\* message of header_size + frame.data.size() bytes is built
PublishBuild(from, to) ==
    /\ main_pc = from
    /\ message' = Serialize(frame)
    /\ rd_stores' = 0
    /\ main_pc' = to
    /\ UNCHANGED <<grabber_vars, cap_vars, source_vars, running, stop_return,
                   exit_code, latest, frame, stats_pc, published_count_,
                   dropped_count_, socket_, outq, pub_ret, encoded, encode_ok,
                   stores, pub_calls>>
    /\ UNCHANGED reads

\* PublishSend with a blocking send: at the high-water mark the call waits
PublishSend_Blocking(from, retPc) ==
    /\ main_pc = from
    /\ outq < HighWaterMark
    /\ \E r \in SendOutcomes :
        /\ IF r = "sent"
           THEN /\ published_count_' = published_count_ + 1
                /\ outq' = Min(outq + 1, HighWaterMark)
                /\ pub_ret' = "true"
                /\ UNCHANGED dropped_count_
           ELSE /\ dropped_count_' = dropped_count_ + 1
                /\ pub_ret' = "false"
                /\ UNCHANGED <<published_count_, outq>>
    /\ message' = <<>>
    /\ pub_calls' = pub_calls + 1
    /\ main_pc' = retPc
    /\ UNCHANGED <<grabber_vars, cap_vars, source_vars, running, stop_return,
                   exit_code, latest, frame, stats_pc, socket_, encoded,
                   encode_ok, stores, rd_stores>>
    /\ UNCHANGED reads

\* PublishSend whose catch block forgets dropped_count_++
PublishSend_CatchNoCount(from, retPc) ==
    /\ main_pc = from
    /\ \E r \in SendOutcomes :
        /\ IF r = "sent"
           THEN /\ published_count_' = published_count_ + 1
                /\ outq' = Min(outq + 1, HighWaterMark)
                /\ pub_ret' = "true"
                /\ UNCHANGED dropped_count_
           ELSE /\ dropped_count_' = IF r = "error" THEN dropped_count_
                                     ELSE dropped_count_ + 1
                /\ pub_ret' = "false"
                /\ UNCHANGED <<published_count_, outq>>
    /\ message' = <<>>
    /\ pub_calls' = pub_calls + 1
    /\ main_pc' = retPc
    /\ UNCHANGED <<grabber_vars, cap_vars, source_vars, running, stop_return,
                   exit_code, latest, frame, stats_pc, socket_, encoded,
                   encode_ok, stores, rd_stores>>
    /\ UNCHANGED reads

\* PublishSend without the catch block: zmq::error_t leaves publish and,
\* uncaught in main, ends the process through std::terminate
PublishSend_NoCatch(from, retPc) ==
    /\ main_pc = from
    /\ \E r \in SendOutcomes :
        /\ IF r = "sent"
           THEN /\ published_count_' = published_count_ + 1
                /\ outq' = Min(outq + 1, HighWaterMark)
                /\ pub_ret' = "true"
                /\ main_pc' = retPc
                /\ UNCHANGED dropped_count_
           ELSE IF r = "again"
           THEN /\ dropped_count_' = dropped_count_ + 1
                /\ pub_ret' = "false"
                /\ main_pc' = retPc
                /\ UNCHANGED <<published_count_, outq>>
           ELSE /\ main_pc' = "terminate"
                /\ UNCHANGED <<published_count_, dropped_count_, outq, pub_ret>>
    /\ message' = <<>>
    /\ pub_calls' = pub_calls + 1
    /\ UNCHANGED <<grabber_vars, cap_vars, source_vars, running, stop_return,
                   exit_code, latest, frame, stats_pc, socket_, encoded,
                   encode_ok, stores, rd_stores>>
    /\ UNCHANGED reads

\* publish, second half: socket_->send(message, dontwait), the counter, the
\* return value; the message is released when the call returns
PublishSend(from, retPc) ==
    /\ main_pc = from
    /\ \E r \in SendOutcomes :
        /\ IF r = "sent"
           THEN /\ published_count_' = published_count_ + 1
                /\ outq' = Min(outq + 1, HighWaterMark)
                /\ pub_ret' = "true"
                /\ UNCHANGED dropped_count_
           ELSE /\ dropped_count_' = dropped_count_ + 1
                /\ pub_ret' = "false"
                /\ UNCHANGED <<published_count_, outq>>
    /\ message' = <<>>
    /\ pub_calls' = pub_calls + 1
    /\ main_pc' = retPc
    /\ UNCHANGED <<grabber_vars, cap_vars, source_vars, running, stop_return,
                   exit_code, latest, frame, stats_pc, socket_, encoded,
                   encode_ok, stores, rd_stores>>
    /\ UNCHANGED reads

\* a subscriber takes one buffered message off the outbound queue
SubscriberRecv ==
    /\ ProcessAlive
    /\ outq > 0
    /\ outq' = outq - 1
    /\ UNCHANGED <<grabber_vars, cap_vars, source_vars, main_vars,
                   published_count_, dropped_count_, socket_, message, pub_ret,
                   hist_vars>>

\* ---- main ----------------------------------------------------------------
\* if (!grabber.start()) { ...; return 1; }
MainStart == GrabberStart("start", "spawn_stats", "start_failed")

\* std::cerr << "Failed to start RGB grabber"; return 1;
MainStartFailed ==
    /\ main_pc = "start_failed"
    /\ exit_code' = 1
    /\ main_pc' = "dtor_publisher"
    /\ UNCHANGED <<grabber_vars, cap_vars, source_vars, running, stop_return,
                   latest, frame, stats_pc, pub_vars, hist_vars>>

\* std::thread stats_thread(print_stats, ...);
MainSpawnStats ==
    /\ main_pc = "spawn_stats"
    /\ stats_pc' = "loop"
    /\ main_pc' = "loop"
    /\ UNCHANGED <<grabber_vars, cap_vars, source_vars, running, stop_return,
                   exit_code, latest, frame, pub_vars, hist_vars>>

\* while (running && grabber.is_running())
MainLoop ==
    /\ main_pc = "loop"
    /\ IF running /\ running_
       THEN /\ pub_calls < MaxPublish
            /\ main_pc' = "get_latest_frame"
       ELSE main_pc' = "stop"
    /\ UNCHANGED <<grabber_vars, cap_vars, source_vars, running, stop_return,
                   exit_code, latest, frame, stats_pc, pub_vars, hist_vars>>

\* MainPublish in a loop that publishes only when a frame has been stored
\* since its last publish call, and otherwise goes straight to the sleep
MainPublish_OncePerStore ==
    IF pub_calls < stores
    THEN PublishBuild("publish", "send")
    ELSE /\ main_pc = "publish"
         /\ main_pc' = "sleep"
         /\ rd_stores' = 0
         /\ UNCHANGED <<grabber_vars, cap_vars, source_vars, running,
                        stop_return, exit_code, latest, frame, stats_pc,
                        pub_vars, encoded, encode_ok, stores, pub_calls, reads>>

\* publisher.publish(frame);
MainPublish     == PublishBuild("publish", "send")
MainPublishSend == PublishSend("send", "sleep")

\* (publish's return value is discarded) std::this_thread::sleep_for(1 ms);
MainSleep ==
    /\ main_pc = "sleep"
    /\ pub_ret' = "none"
    /\ main_pc' = "loop"
    /\ UNCHANGED <<grabber_vars, cap_vars, source_vars, running, stop_return,
                   exit_code, latest, frame, stats_pc, published_count_,
                   dropped_count_, socket_, outq, message, hist_vars>>

\* grabber.stop();
MainStop == GrabberStop("stop", "join")

\* stats_thread.join(); "Shutdown complete"; return 0;
MainJoin ==
    /\ main_pc = "join"
    /\ stats_pc = "exit"
    /\ main_pc' = "dtor_publisher"
    /\ UNCHANGED <<grabber_vars, cap_vars, source_vars, running, stop_return,
                   exit_code, latest, frame, stats_pc, pub_vars, hist_vars>>

\* FramePublisher::~FramePublisher: socket_->close();
PublisherClose(from, to) ==
    /\ main_pc = from
    /\ socket_' = "closed"
    /\ main_pc' = to
    /\ UNCHANGED <<grabber_vars, cap_vars, source_vars, running, stop_return,
                   exit_code, latest, frame, stats_pc, published_count_,
                   dropped_count_, outq, message, pub_ret, hist_vars>>

MainDtorPublisher == PublisherClose("dtor_publisher", "dtor_grabber")

\* RGBGrabber::~RGBGrabber: stop();  then main has returned
MainDtorGrabber == GrabberStop("dtor_grabber", "done")

\* void signal_handler(int): running = false;
SignalHandler ==
    /\ ProcessAlive
    /\ running
    /\ running' = FALSE
    /\ UNCHANGED <<grabber_vars, cap_vars, source_vars, main_pc, stop_return,
                   exit_code, latest, frame, stats_pc, pub_vars, hist_vars>>

\* print_stats, one loop iteration: while (running) { sleep_for(5 s);
\* if (!running) break; std::cout << "Stats: " ...; }  The thread only reads:
\* it stays in the loop while running is true and returns once it is false.
StatsIterate ==
    /\ ProcessAlive
    /\ stats_pc = "loop"
    /\ stats_pc' = IF running THEN "loop" ELSE "exit"
    /\ UNCHANGED <<grabber_vars, cap_vars, source_vars, running, main_pc,
                   stop_return, exit_code, latest, frame, pub_vars, hist_vars>>

\* ---- the program ---------------------------------------------------------
MainThread ==
    \/ MainStart
    \/ MainStartFailed
    \/ MainSpawnStats
    \/ MainLoop
    \/ GetLatestLoad
    \/ GetLatestCopyData
    \/ GetLatestCopyWidth
    \/ GetLatestCopyHeight
    \/ GetLatestCopyTimestamp
    \/ GetLatestCopyNumber
    \/ MainPublish
    \/ MainPublishSend
    \/ MainSleep
    \/ MainStop
    \/ GrabberStopTeardown
    \/ MainJoin
    \/ MainDtorPublisher
    \/ MainDtorGrabber

Next ==
    \/ MainThread
    \/ \E t \in Threads : CaptureLoop(t)
    \/ StatsIterate
    \/ SignalHandler
    \/ SubscriberRecv

Spec == Init /\ [][Next]_vars

\* ---- other specifications -------------------------------------------------
\* Scheduling: the operating system keeps running the capture thread (weak
\* fairness of its steps), and a streaming capture source keeps delivering
\* frames to a thread that keeps waiting for them (strong fairness of the
\* wait that returns a frame).  Nothing is assumed of the main thread or of
\* the signal.
CaptureFairness ==
    \A t \in Threads : WF_vars(CaptureLoop(t)) /\ SF_vars(CapWaitFrame(t))

\* The program with no subscriber on the endpoint: nothing takes messages off
\* the outbound queue, so it fills up and stays full.
NoSubscriberNext ==
    \/ MainThread
    \/ \E t \in Threads : CaptureLoop(t)
    \/ StatsIterate
    \/ SignalHandler

BackpressureSpec == Init /\ [][NoSubscriberNext]_vars /\ CaptureFairness

\* Scheduling for shutdown: every thread that can take a step is eventually
\* run (the main thread, the stats thread and each capture thread), and every
\* wait_for_frames call returns (a frame, or the timeout's rs2::error).
\* Nothing is assumed of the signal or the subscriber.
ShutdownSpec ==
    /\ Init
    /\ [][Next]_vars
    /\ WF_vars(MainThread)
    /\ WF_vars(StatsIterate)
    /\ \A t \in Threads : WF_vars(CaptureLoop(t))

\* The program started with --quality q: the configuration main builds from
\* its arguments, nothing else changed.
ArgQualities == {0, DefaultQuality, 101}
ArgInit ==
    \E q \in ArgQualities :
        InitWith([DefaultConfig EXCEPT !.jpeg_quality = q], "start", EmptyFrame)
ArgSpec == ArgInit /\ [][Next]_vars

\* publish applied to one frame: the main thread stands at its publish call
\* holding a frame drawn from bounded sets of field values
RECURSIVE SeqsUpTo(_, _)
SeqsUpTo(S, n) ==
    IF n = 0 THEN {<<>>}
    ELSE LET shorter == SeqsUpTo(S, n - 1)
         IN  shorter \cup {Append(q, b) : q \in shorter, b \in S}

WireFrames ==
    [data : SeqsUpTo({0, 255}, MaxPayload),
     width : {1, DefaultWidth, 16909060, 2147483647},
     height : {1, DefaultHeight},
     timestamp_ms : {0, 123456789, 2147483647},
     frame_number : {0, 42, 16909060}]

WireInit == \E f \in WireFrames : InitWith(DefaultConfig, "publish", f)
WireNext == MainPublish \/ MainPublishSend \/ SubscriberRecv
WireSpec == WireInit /\ [][WireNext]_vars

\* publish applied to a publisher whose socket may have been closed: a caller
\* that holds a frame publishes it repeatedly, and socket_->close() runs
\* between two of its calls.  (main itself closes the socket only in the
\* destructor, after its last publish call.)
ClientSend  == pub_calls < MaxPublish /\ PublishSend("send", "publish")
ClientClose == socket_ = "bound" /\ PublisherClose("publish", "publish")

CloseInit == WireInit
CloseNext == MainPublish \/ ClientSend \/ ClientClose
CloseSpec == CloseInit /\ [][CloseNext]_vars

\* start and stop called in any order on one grabber: a caller that, between
\* two calls, picks start() or stop() again and again.  Every successful
\* start detaches one more capture thread.  (main itself calls start once and
\* stop once.)
RestartThreads == 1..MaxStarts

CallerChoose ==
    /\ main_pc = "call"
    /\ main_pc' \in {"call_start", "call_stop"}
    /\ UNCHANGED <<grabber_vars, cap_vars, source_vars, running, stop_return,
                   exit_code, latest, frame, stats_pc, pub_vars, hist_vars>>

CallerStart ==
    /\ running_ \/ \E t \in RestartThreads : cap_pc[t] = "none"
    /\ GrabberStart("call_start", "start_returned", "start_returned")

CallerStartReturned ==
    /\ main_pc = "start_returned"
    /\ main_pc' = "call"
    /\ UNCHANGED <<grabber_vars, cap_vars, source_vars, running, stop_return,
                   exit_code, latest, frame, stats_pc, pub_vars, hist_vars>>

CallerStop == GrabberStop("call_stop", "call")

RestartInit == InitThreads(DefaultConfig, "call", EmptyFrame, RestartThreads)
RestartNext ==
    \/ CallerChoose
    \/ CallerStart
    \/ CallerStartReturned
    \/ CallerStop
    \/ GrabberStopTeardown
    \/ \E t \in RestartThreads : CaptureLoop(t)
RestartSpec == RestartInit /\ [][RestartNext]_vars

\* ==== claims ==============================================================

\* a frame the capture loop completed: all five fields from one cycle
IsEncodedFrame(f) == \E i \in 1..Len(encoded) : f = encoded[i]

\* C1: no tearing.  Whenever get_latest_frame has returned true, the frame it
\* copied out (data, width, height, timestamp_ms, frame_number) is one single
\* frame completed by the capture loop, never a mix of two frames' fields.
C1_NoTearing == main_pc = "publish" => IsEncodedFrame(frame)

\* C2: most-recent-wins.  A get_latest_frame call that loads latest_frame_
\* after N latest_frame_.store calls, with no further store before it returns,
\* returns the N-th completed frame, the one with frame_number N - 1.
C2_MostRecentWins ==
    (main_pc = "publish" /\ stores = rd_stores) =>
        /\ rd_stores \in 1..Len(encoded)
        /\ frame = encoded[rd_stores]
        /\ frame.frame_number = rd_stores - 1

\* C2 witness: the first successful read, made after two frames were stored
C2_Witness ==
    /\ main_pc = "publish"
    /\ pub_calls = 0
    /\ stores = rd_stores
    /\ rd_stores = 2
    /\ frame.frame_number = 1

\* capture threads between a successful encode_jpeg and the fetch_add
InFlight ==
    Cardinality({t \in Threads :
        cap_pc[t] \in {"set_width", "set_height", "set_timestamp", "fetch_add"}})

\* C3: monotonic sequence.  The i-th completed frame carries frame_number
\* i - 1, and frame_count_ counts exactly the successful encodes (those whose
\* fetch_add has run): timeouts, source errors, encode failures and publish
\* drops consume no number.
C3_MonotonicSequence ==
    /\ frame_count_ + InFlight = encode_ok
    /\ \A i \in 1..Len(encoded) : encoded[i].frame_number = i - 1

\* C3 witness: three frames captured, one of them failed to encode, a publish
\* was dropped, and the two encoded frames are numbered 0 and 1
C3_Witness ==
    /\ camera_frames = 3
    /\ cap_pc[1] = "while"
    /\ frame_count_ = 2
    /\ dropped_count_ >= 1
    /\ Len(encoded) = 2
    /\ encoded[2].frame_number = 1

\* frames the source delivered whose encode_jpeg call returned false
EncodeFailures ==
    camera_frames - encode_ok
        - Cardinality({t \in Threads :
              \/ cap_pc[t] \in {"load_idx", "encode"}
              \/ cap_pc[t] = "check_color" /\ color_frame[t] # 0})

CaptureActive(t) == cap_pc[t] \notin {"none", "exit"}

\* C4: backpressure never blocks capture.  With the outbound queue at the
\* high-water mark (no subscriber, or a slow one) a publish call is still one
\* enabled step that returns, and when it returns false dropped_count_ grows
\* by one; every capture thread's next step stays enabled; and under fair
\* scheduling of the capture thread frame_count_ reaches every frame the
\* source delivers (unless the grabber is stopped or an encode fails),
\* whatever the main thread and the subscriber do.
C4_BackpressureNeverBlocks ==
    /\ [](main_pc = "publish" => ENABLED MainPublish)
    /\ [](main_pc = "send" => ENABLED MainPublishSend)
    /\ [](\A t \in Threads :
            (ProcessAlive /\ CaptureActive(t)) => ENABLED CaptureLoop(t))
    /\ [][(main_pc = "send" /\ main_pc' # "send" /\ pub_ret' = "false")
            => (dropped_count_' = dropped_count_ + 1 /\ main_pc' = "sleep")]_vars
    /\ (main_pc = "spawn_stats")
          ~> (frame_count_ = MaxFrames \/ ~running_ \/ EncodeFailures > 0)

\* C4 witness: the queue is saturated, the last publish was dropped, and the
\* capture loop has counted a further frame since and is capturing the next
C4_Witness ==
    /\ outq = HighWaterMark
    /\ main_pc = "sleep"
    /\ pub_ret = "false"
    /\ dropped_count_ = 1
    /\ published_count_ = 2
    /\ frame_count_ = 3
    /\ frame.frame_number < 2

\* C5: every publish call adds exactly 1 to exactly one counter, the one its
\* return value names; no other step changes a counter; so
\* published_count_ + dropped_count_ is the number of completed publish calls.
C5_ExactlyOneCounter ==
    /\ [](published_count_ + dropped_count_ = pub_calls)
    /\ [][/\ pub_calls' = pub_calls + 1 =>
                \/ /\ pub_ret' = "true"
                   /\ published_count_' = published_count_ + 1
                   /\ dropped_count_' = dropped_count_
                \/ /\ pub_ret' = "false"
                   /\ dropped_count_' = dropped_count_ + 1
                   /\ published_count_' = published_count_
          /\ pub_calls' = pub_calls =>
                /\ published_count_' = published_count_
                /\ dropped_count_' = dropped_count_]_vars

\* C5 witness: publish calls of both kinds have completed
C5_Witness ==
    /\ published_count_ >= 1
    /\ dropped_count_ >= 2
    /\ pub_ret = "false"

\* reading the wire layout of spec section 6: an unsigned little-endian value
RECURSIVE FromLE(_)
FromLE(bytes) ==
    IF bytes = <<>> THEN 0 ELSE Head(bytes) + 256 * FromLE(Tail(bytes))

\* width at 0 (4), height at 4 (4), timestamp_ms at 8 (8), sequence number at
\* 16 (4), pixel bytes from 20 to the end of the message
ParseMessage(msg) ==
    [width |-> FromLE(SubSeq(msg, 1, 4)),
     height |-> FromLE(SubSeq(msg, 5, 8)),
     timestamp_ms |-> FromLE(SubSeq(msg, 9, 16)),
     frame_number |-> FromLE(SubSeq(msg, 17, 20)),
     data |-> SubSeq(msg, 21, Len(msg))]

\* C6: wire round trip.  The message publish builds and sends is
\* 20 + N bytes long and parsing it by the layout gives back the frame's
\* width, height, timestamp_ms, frame_number and pixel bytes.
C6_WireRoundTrip ==
    main_pc = "send" =>
        /\ Len(message) = 20 + Len(frame.data)
        /\ ParseMessage(message) = frame

\* C6 witness: the message of the spec's example frame with a two-byte payload
C6_Witness ==
    /\ main_pc = "send"
    /\ frame.width = 640
    /\ frame.height = 480
    /\ frame.timestamp_ms = 123456789
    /\ frame.frame_number = 42
    /\ frame.data = <<255, 0>>
    /\ Len(message) = 22

\* C7: before the first latest_frame_.store, latest_frame_ is null, every
\* get_latest_frame call returns false (main never reaches the copy or the
\* publish call) and both publisher counters are 0.
C7_NoneBeforeFirstFrame ==
    stores = 0 =>
        /\ latest_frame_ = Null
        /\ latest = Null
        /\ main_pc \notin {"copy_data", "copy_width", "copy_height",
                           "copy_timestamp", "copy_number", "publish"}
        /\ pub_calls = 0
        /\ published_count_ = 0
        /\ dropped_count_ = 0

\* C7 witness: a frame is encoded and numbered but not yet stored as latest,
\* and main's get_latest_frame has just returned false
C7_Witness ==
    /\ stores = 0
    /\ frame_count_ = 1
    /\ cap_pc[1] = "store_latest"
    /\ main_pc = "sleep"
    /\ rd_stores = 0

\* what the specification calls an invalid configuration
InvalidConfig(c) ==
    \/ c.width <= 0
    \/ c.height <= 0
    \/ c.fps <= 0
    \/ c.jpeg_quality <= 0
    \/ c.jpeg_quality > 100

StartFailed == main_pc = "start_failed" \/ exit_code = 1

\* C8: start validates the configuration: with a non-positive width, height,
\* fps or quality, or a quality above 100, start fails, running_ stays false
\* and no capture loop is launched.
C8_StartValidatesConfig ==
    (InvalidConfig(config_) /\ main_pc # "start") =>
        /\ StartFailed
        /\ ~running_
        /\ \A t \in Threads : cap_pc[t] = "none"

\* C9: starting fails closed.  When pipeline_->start throws, start returns
\* false with running_ false, the pipeline not streaming, no capture thread,
\* and the frame store and frame_count_ as constructed; this stays so until
\* main has returned 1.
C9_StartFailsClosed ==
    StartFailed =>
        /\ ~running_
        /\ pipeline_ = "idle"
        /\ \A t \in Threads : cap_pc[t] = "none"
        /\ stats_pc = "none"
        /\ latest_frame_ = Null
        /\ frame_buffer_ = [s \in Slots |-> EmptyFrame]
        /\ write_buffer_ = 0
        /\ frame_count_ = 0

\* C9 witness: main has returned 1 after the failed start
C9_Witness ==
    /\ main_pc = "done"
    /\ exit_code = 1

\* C10: only a stop request ends the capture loop.  A capture thread leaves
\* its loop only from the loop test with running_ false; running_ is cleared
\* only inside stop(); and after a source error, a missing colour frame or an
\* encode failure the thread's next position is the loop test, from which,
\* with running_ still true, it calls wait_for_frames again.
C10_OnlyStopEndsLoop ==
    [][/\ \A t \in Threads :
            /\ (cap_pc'[t] = "exit" /\ cap_pc[t] # "exit")
                  => (cap_pc[t] = "while" /\ ~running_)
            /\ cap_pc[t] = "catch" => cap_pc'[t] \in {"catch", "while"}
            /\ (cap_pc[t] = "check_color" /\ color_frame[t] = 0)
                  => cap_pc'[t] \in {"check_color", "while"}
            /\ cap_pc[t] = "encode"
                  => cap_pc'[t] \in {"encode", "while", "set_width"}
            /\ (cap_pc[t] = "while" /\ running_)
                  => cap_pc'[t] \in {"while", "wait"}
       /\ (running_ /\ ~running_') => main_pc \in {"stop", "dtor_grabber"}]_vars

\* C10 witness: after an encode failure and two stored frames the loop has
\* caught a source error and the grabber is still running
C10_Witness ==
    /\ cap_pc[1] = "catch"
    /\ running_
    /\ EncodeFailures = 1
    /\ stores = 2

\* every capture thread that was launched has left capture_loop
CaptureLoopsExited == \A t \in Threads : cap_pc[t] \in {"none", "exit"}

\* C11: cooperative shutdown terminates.  Once the stop flag is set on a
\* running grabber, under fair scheduling of all threads the publish loop
\* exits, every capture loop sees running_ false at its loop test and exits,
\* the stats thread exits and main returns 0 ("Shutdown complete").
C11_ShutdownTerminates ==
    (~running /\ running_) ~>
        (/\ main_pc = "done"
         /\ exit_code = 0
         /\ stats_pc = "exit"
         /\ CaptureLoopsExited)

\* C12: idempotent stop.  A stop() call on a grabber that is not running (the
\* destructor's stop after main's explicit stop, or after a failed start)
\* returns at once and leaves the pipeline, running_, frame_count_, the frame
\* store with its latest pointer and the publisher counters as they were;
\* pipeline_->stop() is only ever called on a streaming pipeline, and a
\* started grabber's pipeline has been stopped when main returns.
C12_IdempotentStop ==
    /\ [][/\ (main_pc \in {"stop", "dtor_grabber"} /\ ~running_
                /\ main_pc' # main_pc) =>
                /\ main_pc' = (IF main_pc = "stop" THEN "join" ELSE "done")
                /\ UNCHANGED <<pipeline_, running_, frame_count_, latest_frame_,
                               frame_buffer_, write_buffer_, published_count_,
                               dropped_count_>>
          /\ (main_pc = "stop_sleep" /\ main_pc' # "stop_sleep") =>
                (pipeline_ = "streaming" /\ pipeline_' = "idle")]_vars
    /\ [](main_pc = "done" => (pipeline_ = "idle" /\ ~running_))

\* C12 witness: main has returned 0 after capturing and publishing: the
\* explicit stop and then the destructor's stop have both run
C12_Witness ==
    /\ main_pc = "done"
    /\ exit_code = 0
    /\ frame_count_ >= 1
    /\ published_count_ >= 1
    /\ latest_frame_ # Null

C14_WriteThenPublish ==
    [][latest_frame_' # latest_frame_ =>
        \E t \in Threads :
            LET f == frame_buffer_[latest_frame_'] IN
            /\ cap_pc[t] = "store_latest"
            /\ latest_frame_' = write_idx[t]
            /\ frame_buffer_' = frame_buffer_
            /\ color_frame[t] # 0
            /\ f.data = Jpeg(color_frame[t])
            /\ f.width = config_.width
            /\ f.height = config_.height
            /\ f.timestamp_ms = clock
            /\ f.frame_number = frame_count_ - 1
            /\ f = encoded[Len(encoded)]
            /\ \A s \in Slots : s # latest_frame_' =>
                    \/ frame_buffer_[s] = EmptyFrame
                    \/ frame_buffer_[s].frame_number < f.frame_number]_vars

\* C14 witness: the third frame has just been made latest, in slot 0 again
C14_Witness ==
    /\ stores = 3
    /\ latest_frame_ = 0
    /\ cap_pc[1] = "while"
    /\ frame_buffer_[0].frame_number = 2
    /\ frame_buffer_[0].data = Jpeg(3)

\* capture threads between encode_jpeg and the end of the field assignments
Writing(t) ==
    cap_pc[t] \in {"encode", "set_width", "set_height", "set_timestamp", "fetch_add"}

\* C15: the writer targets the non-latest slot.  Whenever a capture thread is
\* encoding into a slot or assigning its fields, that slot is not the one
\* latest_frame_ points to; also after encode failures, which leave
\* write_buffer_ as it was.
C15_WriterTargetsNonLatest ==
    \A t \in Threads : Writing(t) => write_idx[t] # latest_frame_

\* C15 witness: after a stored frame and a failed encode, the loop writes the
\* fields of the next frame into slot 1 while latest_frame_ is slot 0
C15_Witness ==
    /\ cap_pc[1] = "set_timestamp"
    /\ write_idx[1] = 1
    /\ latest_frame_ = 0
    /\ stores = 1
    /\ EncodeFailures = 1

\* the reader between latest_frame_.load() and the end of frame = *latest
Copying ==
    main_pc \in {"copy_data", "copy_width", "copy_height", "copy_timestamp",
                 "copy_number"}

\* C16: reader/writer slot exclusion.  The reader is never copying a slot
\* that a capture thread has begun to rewrite (data encoded, fields not yet
\* all assigned), however many cycles complete during the read.
C16_SlotExclusion ==
    ~(/\ Copying
      /\ \E t \in Threads :
            /\ cap_pc[t] \in {"set_width", "set_height", "set_timestamp", "fetch_add"}
            /\ write_idx[t] = latest)

\* C17: an encode failure drops only that frame.  From wait_for_frames to the
\* false result of encode_jpeg the cycle changes neither latest_frame_, nor
\* the frame it points to, nor frame_count_, nor write_buffer_, and the
\* thread's next position is the loop test.
C17_EncodeFailureDropsFrame ==
    [][\A t \in Threads :
        (/\ cap_pc'[t] # cap_pc[t]
         /\ \/ cap_pc[t] \in {"wait", "check_color", "load_idx"}
            \/ cap_pc[t] = "encode" /\ cap_pc'[t] # "set_width") =>
            /\ latest_frame_' = latest_frame_
            /\ frame_count_' = frame_count_
            /\ write_buffer_' = write_buffer_
            /\ latest_frame_ # Null =>
                    frame_buffer_'[latest_frame_] = frame_buffer_[latest_frame_]
            /\ cap_pc[t] = "encode" => cap_pc'[t] = "while"]_vars

\* C17 witness: the second frame failed to encode; the first is still latest
\* and the loop is waiting for the third
C17_Witness ==
    /\ EncodeFailures = 1
    /\ camera_frames = 2
    /\ cap_pc[1] = "wait"
    /\ stores = 1
    /\ frame_count_ = 1
    /\ latest_frame_ = 0
    /\ write_buffer_ = 1
    /\ frame_buffer_[0] = encoded[1]
    /\ frame_buffer_[1].data = <<>>

\* C18: no deduplication in the publish loop.  Every get_latest_frame call
\* that returns true is followed by exactly one publish call with the frame
\* it returned, whatever the frame's number: the completed publish calls
\* (each counted as published or dropped) are the successful reads, plus none
\* or minus the one in progress.
C18_NoDeduplication ==
    /\ [](reads = pub_calls + (IF main_pc \in {"publish", "send"} THEN 1 ELSE 0))
    /\ [](published_count_ + dropped_count_ = pub_calls)
    /\ [][/\ (main_pc = "publish" /\ main_pc' # "publish") =>
                /\ main_pc' = "send"
                /\ frame' = frame
                /\ message' = Serialize(frame)
          /\ (main_pc = "send" /\ main_pc' # "send") =>
                /\ main_pc' = "sleep"
                /\ frame' = frame
                /\ pub_calls' = pub_calls + 1]_vars

\* C18 witness: the only frame stored so far was read twice and published
\* twice
C18_Witness ==
    /\ main_pc = "sleep"
    /\ stores = 1
    /\ cap_pc[1] = "wait"
    /\ reads = 2
    /\ pub_calls = 2
    /\ published_count_ = 2
    /\ frame = encoded[1]

\* C19: reads never go backwards.  The frame_number a get_latest_frame call
\* returns is that of a frame that was latest when the call loaded
\* latest_frame_ or became latest during the call (the rd_stores-th to the
\* stores-th stored frame, numbered from 0), and it is not below the number
\* the previous call returned (still in main's frame until it is overwritten).
C19_ReadsNeverGoBackwards ==
    /\ [](main_pc = "publish" =>
            (rd_stores >= 1 /\ frame.frame_number \in (rd_stores - 1)..(stores - 1)))
    /\ [][(main_pc = "copy_number" /\ main_pc' = "publish" /\ reads >= 1) =>
            frame'.frame_number >= frame.frame_number]_vars

\* main's stop() call on the started grabber has returned
StopReturned ==
    /\ exit_code = 0
    /\ main_pc \in {"join", "dtor_publisher", "dtor_grabber", "done"}

\* C20: clean shutdown ordering.  When stop() has torn the pipeline down and
\* returned, every capture loop has exited; from then on no capture thread
\* begins a wait_for_frames call, writes a frame store slot, stores
\* latest_frame_ or increments frame_count_.
C20_CleanShutdownOrdering ==
    /\ [](StopReturned => CaptureLoopsExited)
    /\ [][StopReturned =>
            /\ frame_buffer_' = frame_buffer_
            /\ latest_frame_' = latest_frame_
            /\ write_buffer_' = write_buffer_
            /\ frame_count_' = frame_count_
            /\ \A t \in Threads :
                    cap_pc'[t] = "wait" => cap_pc[t] = "wait"]_vars

\* capture threads that are inside capture_loop
ActiveLoops == {t \in DOMAIN cap_pc : CaptureActive(t)}

\* C21: single writer.  Whatever the order of start and stop calls, at most
\* one capture loop is active at any time, and a start() call on a running
\* grabber returns true without launching a thread.
C21_SingleWriter ==
    /\ [](Cardinality(ActiveLoops) <= 1)
    /\ [][(main_pc = "call_start" /\ running_ /\ main_pc' # main_pc) =>
            /\ main_pc' = "start_returned"
            /\ cap_pc' = cap_pc
            /\ UNCHANGED <<running_, pipeline_>>]_vars

====
